---- MODULE Spec2Model ----
(***************************************************************************)
(* RaceBox GPS drag timer: the sample fusion pipeline and the run          *)
(* lifecycle of the most complete iteration (src/unnamed/part_000, lines   *)
(* 1-459, the one with the `finished` flag).                               *)
(*                                                                         *)
(* Numbers are fixed point integers:                                       *)
(*   time            milliseconds (performance.now(); mark.time likewise,  *)
(*                   the source divides by 1000 only to show seconds)      *)
(*   distance        1/10000 m   (so that ROLL_OUT_M = 0.3048 m = 3048)    *)
(*   speed in km/h   1/100 km/h                                            *)
(*   speed in m/s    1/100 m/s   (coords.speed, the Kalman estimate)       *)
(*   bearing         1/1000 degree                                         *)
(*   covariance      1/1000                                                *)
(*   latitude, longitude   1/1000000 degree                                *)
(* JavaScript null is NULL for objects and NONE (-1) for numbers.          *)
(***************************************************************************)
EXTENDS Integers, Sequences, FiniteSets

VARIABLES watchId, armed, running, finished, startPos, lastPos, lastHeading,
          cumulative, startTime, peakSpeed, samples, marks, kalman, lastRun,
          written, mode, checked, now, smoothed, accuracy, nSamples, inFlight,
          path, feed, spdStart, trail, ang

vars == << watchId, armed, running, finished, startPos, lastPos, lastHeading,
           cumulative, startTime, peakSpeed, samples, marks, kalman, lastRun,
           written, mode, checked, now, smoothed, accuracy, nSamples, inFlight,
           path, feed, spdStart, trail, ang >>

NULL == [null |-> TRUE]
NONE == -1

(* ---------------------------------------------------------------- bounds *)
\* fixes delivered to onPos in one behaviour
MaxSamples == 4
\* fixes already queued when the watch is cleared, which are still delivered
MaxInFlight == 1
\* a run that keeps moving is followed up to this distance, 1/10000 m (500 m)
MaxDistance == 5000000
\* the least distance a fix of a run that keeps moving adds, 1/10000 m (10 m)
MinStep == 100000
\* evenly spaced bearings the angular difference is evaluated at
MaxBearings == 24
\* fixes delivered to the onPos of app.js in one behaviour
MaxAppSamples == 5

(* ------------------------------------------------------------- constants *)
GHOST_THRESHOLD_KMH == 250
START_THRESHOLD_KMH == 300
START_WINDOW_MS == 450
SPEED_SMOOTH_ALPHA == 25
KALMAN_Q == 100
KALMAN_R == 2000
KALMAN_P0 == 1000
HEADING_MAX_DEG == 25000
REBUILD_SPEED_MAX_DT == 1200
REBUILD_BELOW_KMH == 50
ROLL_OUT_M == 3048
LOCK_ACCURACY_M == 50
maxKeepMs == 3000
MILESTONES == {20, 100, 201, 402}

Modes == {"201", "402", "0-100", "0-140", "60-100"}

(* ------------------------------------------------------------ the inputs *)
\* Five points at Greenwich: P0..P3 on the meridian 0.0006 E, 0 m, 19.79 m,
\* 200.82 m and 401.75 m north of P0; Pz on the prime meridian (longitude 0,
\* which JavaScript takes for false), 100 m north and 41.6 m west of P0.
P0 == [latitude |-> 51477000, longitude |-> 600]
P1 == [latitude |-> 51477178, longitude |-> 600]
P2 == [latitude |-> 51478806, longitude |-> 600]
P3 == [latitude |-> 51480613, longitude |-> 600]
Pz == [latitude |-> 51477899, longitude |-> 0]
PosIndex(a) ==
  CASE a.latitude = P0.latitude /\ a.longitude = P0.longitude -> 1
    [] a.latitude = P1.latitude /\ a.longitude = P1.longitude -> 2
    [] a.latitude = P2.latitude /\ a.longitude = P2.longitude -> 3
    [] a.latitude = P3.latitude /\ a.longitude = P3.longitude -> 4
    [] a.latitude = Pz.latitude /\ a.longitude = Pz.longitude -> 5

\* What the position feed delivers depends on the receiver and the place; a
\* behaviour has one of four feeds, fixed from the start:
\*   "strip"   a vehicle on the meridian 0.0006 E at 30 m/s (108 km/h), a fix
\*             every 200 ms at one of P0..P3
\*   "launch"  a vehicle at the start line P0: the receiver reports no speed
\*             (null), 0.1 m/s (0.36 km/h) or 30 m/s, every 200 or 500 ms
\*   "bend"    a track that crosses the prime meridian (P0, P2, Pz), the
\*             receiver reports 30 m/s or nothing, every 200 ms
\*   "sprint"  a fast vehicle on the meridian, at P0 or P2, at 30 m/s or at
\*             80 m/s (288 km/h), every 200 ms
Feeds == {"strip", "launch", "bend", "sprint"}
Positions(f) ==
  CASE f = "strip" -> {P0, P1, P2, P3}
    [] f = "launch" -> {P0}
    [] f = "bend" -> {P0, P2, Pz}
    [] f = "sprint" -> {P0, P2}
\* coords.speed in 1/100 m/s
Speeds(f) ==
  CASE f = "strip" -> {3000}
    [] f = "launch" -> {NONE, 10, 3000}
    [] f = "bend" -> {NONE, 3000}
    [] f = "sprint" -> {3000, 8000}
\* time between two fixes, ms
Gaps(f) ==
  CASE f = "strip" -> {200}
    [] f = "launch" -> {200, 500}
    [] f = "bend" -> {200}
    [] f = "sprint" -> {200}
\* coords.accuracy in m
Accuracies == {30, 60}

(* -------------------------------------------------------------- geometry *)
\* hav() of lines 94-101 evaluated at the five points, rounded to 1/10000 m
havTable ==
  << << 0,       197927,  2008180, 4017473, 1082566 >>,
     << 197927,  0,       1810253, 3819546, 903001  >>,
     << 2008180, 1810253, 0,       2009292, 1090782 >>,
     << 4017473, 3819546, 2009292, 0,       3046301 >>,
     << 1082566, 903001,  1090782, 3046301, 0       >> >>
hav(a, b) == havTable[PosIndex(a)][PosIndex(b)]

\* headingDeg() of lines 102-107 evaluated at the five points, 1/1000 degree
\* (atan2(0,0) = 0 for two equal points)
headingTable ==
  << << 0,      0,      0,      0,      337429 >>,
     << 180000, 0,      0,      0,      332603 >>,
     << 180000, 180000, 0,      0,      202392 >>,
     << 180000, 180000, 180000, 0,      187840 >>,
     << 157428, 152602, 22392,  7839,   0      >> >>
headingDeg(a, b) == headingTable[PosIndex(a)][PosIndex(b)]

\* Math.abs(((b - a + 540) % 360) - 180), lines 205 and 270
Abs(x) == IF x < 0 THEN -x ELSE x
\* a difference that does not wrap at 0/360
angDiffNoWrap(a, b) == Abs(b - a)
angDiff(a, b) == Abs(((b - a + 540000) % 360000) - 180000)

(* ------------------------------------------------------- speed estimator *)
lowPass(prev, cur, alpha) == (alpha * cur + (100 - alpha) * prev) \div 100

rebuildSpeedFromDelta(dMeters, dtMs) ==
  IF dtMs <= 0 THEN 0 ELSE (dMeters * 36) \div dtMs

toKmh(ms) == (ms * 18) \div 5
toMs(kmh) == (kmh * 5) \div 18

kalmanUpdate(k, z) ==
  LET p1 == k.p + KALMAN_Q
      x1 == k.x + (p1 * (z - k.x)) \div (p1 + KALMAN_R)
      p2 == p1 - (p1 * p1) \div (p1 + KALMAN_R)
  IN  [x |-> x1, p |-> p2]
kalmanReset(v) == [x |-> v, p |-> KALMAN_P0]

noMarks == [m \in MILESTONES |-> NULL]
\* a resetMarks that leaves the captures standing
resetMarksKept == marks

\* line 77
resetMarks == noMarks

lastSample == samples[Len(samples)]


(* ------------------------------------------------- arm, stop, lines 340-364 *)
\* a disarm that keeps the watch
disarmWatchKept == watchId

\* line 347: clearWatch(watchId); watchId = null
disarmWatch == NONE

\* a stop() that drops the distance of the run it interrupts
distanceAfterStopCleared == IF running THEN 0 ELSE cumulative

\* lines 360-364: stop() assigns no accumulator; the distance stands
distanceAfterStop == cumulative

\* a resetUI() that leaves the filter alone
resetUIKept == kalman

\* line 91: what resetUI() does to the filter (kalman.reset(0))
resetUI == kalmanReset(0)

\* a stop() as it was before the finished flag existed
finishedAfterStopKept == finished

\* line 362: stop() clears the finished flag
finishedAfterStop == FALSE

\* a stop() that disarms without ending the run
runningAfterStopKept == running

\* line 362: stop() ends the run
runningAfterStop == FALSE

(* -------------------------------------------------- onPos, lines 186-337 *)
\* the handler without the early return of line 187
frozenNever == FALSE

\* line 187: a finished run ignores the fix
frozen == finished

\* lines 193-194: coords.speed (m/s, may be null) in km/h
rawKmh(c) == IF c.speed = NONE THEN NONE ELSE toKmh(c.speed)

\* line 198: time since the newest buffered sample
dtMsOf(t) == IF Len(samples) > 0 THEN t - lastSample.t ELSE 0

\* line 200: the reconstruction block runs (0 is false in JavaScript)
hasDelta(c) == lastPos # NULL /\ c.latitude # 0 /\ c.longitude # 0

\* line 202
headingNowOf(c) ==
  IF lastHeading # NONE THEN headingDeg(lastPos, c) ELSE NONE

\* lines 203-207
headingOkOf(c) ==
  ~ (lastHeading # NONE /\ headingNowOf(c) # NONE
       /\ angDiff(lastHeading, headingNowOf(c)) > HEADING_MAX_DEG)

\* line 208: the bearing memory after the reconstruction block
headingAfterRebuild(c) ==
  IF hasDelta(c) THEN headingNowOf(c) ELSE lastHeading

\* line 209: the guard of the reconstruction
rebuilds(c, t) ==
  /\ hasDelta(c)
  /\ (rawKmh(c) = NONE \/ rawKmh(c) < REBUILD_BELOW_KMH)
  /\ dtMsOf(t) > 0
  /\ dtMsOf(t) <= REBUILD_SPEED_MAX_DT
  /\ headingOkOf(c)

\* lines 209-212
rebuiltKmh(c, t) ==
  IF rebuilds(c, t)
    THEN rebuildSpeedFromDelta(hav(lastPos, c), dtMsOf(t))
    ELSE rawKmh(c)

\* no ghost filter
ghostOff(v) == v

\* line 215: ghost filter
ghost(v) == IF v # NONE /\ v < GHOST_THRESHOLD_KMH THEN 0 ELSE v

\* the measured speed that enters the Kalman filter and the peak, km/h
measuredOf(c, t) == ghost(rebuiltKmh(c, t))

\* lines 218-221: the Kalman state after the fix
kalmanAfter(c, t) ==
  IF measuredOf(c, t) # NONE
    THEN kalmanUpdate(kalman, toMs(measuredOf(c, t)))
    ELSE kalman

\* a smoothing input that always reads the filter estimate
smoothKmhFromFilter(c, t) == toKmh(kalmanAfter(c, t).x)

\* lines 217-224
smoothKmhOf(c, t) ==
  IF measuredOf(c, t) # NONE
    THEN toKmh(kalmanAfter(c, t).x)
    ELSE IF Len(samples) > 0 THEN lastSample.speed ELSE 0

\* lines 226-227
smoothedOf(c, t) ==
  LET lastSmooth == IF Len(samples) > 0 THEN lastSample.speed
                                        ELSE smoothKmhOf(c, t)
  IN  lowPass(lastSmooth, smoothKmhOf(c, t), SPEED_SMOOTH_ALPHA)

\* a buffer that is never pruned
keepAll(s, t) == TRUE

\* lines 230-232: push and prune
keep(s, t) == t - s.t <= maxKeepMs
pushed(c, t) ==
  SelectSeq(Append(samples, [t |-> t, speed |-> smoothedOf(c, t)]),
            LAMBDA s : keep(s, t))

\* a peak that no fix raises
peakNever(c, t) == peakSpeed

\* line 239
peakAfter(c, t) ==
  IF measuredOf(c, t) # NONE /\ measuredOf(c, t) > peakSpeed
    THEN measuredOf(c, t) ELSE peakSpeed

\* a lock that takes any accuracy
hasLockAlways(acc) == TRUE

\* line 252
hasLock(acc) == acc <= LOCK_ACCURACY_M

\* lines 269-275: the distance of the segment after the heading filter,
\* against the bearing memory h
gated(dtmp, hNow, h) ==
  IF h # NONE
    THEN IF angDiff(h, hNow) <= HEADING_MAX_DEG THEN dtmp ELSE 0
    ELSE dtmp

\* lines 265-277: the distance this fix contributes
deltaOf(c) ==
  IF lastPos # NULL
    THEN gated(hav(lastPos, c), headingDeg(lastPos, c), headingAfterRebuild(c))
    ELSE 0

\* a bearing memory that a rejected segment does not update
headingAfterAccepted(c) ==
  IF lastPos # NULL
       /\ (headingAfterRebuild(c) = NONE
             \/ angDiff(headingAfterRebuild(c), headingDeg(lastPos, c))
                  <= HEADING_MAX_DEG)
    THEN headingDeg(lastPos, c)
    ELSE headingAfterRebuild(c)

\* line 276: the bearing memory after the heading filter
headingAfterFilter(c) ==
  IF lastPos # NULL THEN headingDeg(lastPos, c) ELSE headingAfterRebuild(c)

\* lines 280-282 (both reads of performance.now() in one handler give the
\* same millisecond)
inWindow(s, nowMs) == nowMs - s.t <= START_WINDOW_MS
recentOf(smp, nowMs) == { i \in 1..Len(smp) : inWindow(smp[i], nowMs) }
\* a start as soon as one sample in the window is fast
readyAny(smp, nowMs) ==
  \E i \in recentOf(smp, nowMs) : smp[i].speed >= START_THRESHOLD_KMH

ready(smp, nowMs) ==
  /\ recentOf(smp, nowMs) # {}
  /\ \A i \in recentOf(smp, nowMs) : smp[i].speed >= START_THRESHOLD_KMH

\* a start that counts the segment of the start fix, and one that keeps the
\* peak of line 239
startDistanceWithSegment(c) == deltaOf(c)
startPeakKept(c, t) == peakAfter(c, t)

\* line 286: the distance and the peak speed a run starts with
startDistance(c) == 0
startPeak(c, t) == smoothedOf(c, t)

\* line 306
rolloutOffsetOf(chk) == IF chk THEN ROLL_OUT_M ELSE 0

\* a threshold that ignores the rollout
reachedNoRollout(cum, m, off) == cum >= m * 10000

\* line 309: the milestone m is reached at distance cum
reached(cum, m, off) == cum >= m * 10000 - off

\* a capture without the !marks[m] test
captureOverwrite(mk, m, cum, off, elapsed, speed) ==
  IF reached(cum, m, off)
    THEN [time |-> elapsed, speed |-> speed]
    ELSE mk

\* a capture of the milestone whose band the distance is in only
captureBand(mk, m, cum, off, elapsed, speed) ==
  IF mk = NULL /\ reached(cum, m, off) /\ ~ reached(cum, 2 * m, off)
    THEN [time |-> elapsed, speed |-> speed]
    ELSE mk

\* lines 308-313: one milestone after a fix processed in Running
capture(mk, m, cum, off, elapsed, speed) ==
  IF mk = NULL /\ reached(cum, m, off)
    THEN [time |-> elapsed, speed |-> speed]
    ELSE mk

\* a handler without the stop of lines 316-322
stopBy402Never(mks) == FALSE

\* lines 316-333: the run stops on this fix
stopBy402(mks) == mks[402] # NULL

\* a mode 201 that ignores the rollout
stopBy201NoRollout(md, cum, off) == md = "201" /\ cum >= 201 * 10000

\* line 326
stopBy201(md, cum, off) == md = "201" /\ cum >= 201 * 10000 - off

\* speed modes that both stop at 140 km/h
stopByPeak140(md, peak) == md \in {"0-100", "0-140"} /\ peak >= 14000

\* lines 328-329
stopByPeak(md, peak) ==
  \/ md = "0-100" /\ peak >= 10000
  \/ md = "0-140" /\ peak >= 14000

\* line 331: samples.slice(-10).map(s => s.speed)
lastSpeedsOf(smp) ==
  { smp[i].speed : i \in { j \in 1..Len(smp) : j > Len(smp) - 10 } }

\* a mode 60-100 that stops once 60 km/h is seen
stopBy60100Low(md, smp) ==
  md = "60-100" /\ \E s \in lastSpeedsOf(smp) : s >= 6000

\* lines 330-333
stopBy60100(md, smp) ==
  /\ md = "60-100"
  /\ \E s \in lastSpeedsOf(smp) : s >= 6000
  /\ \E s \in lastSpeedsOf(smp) : s >= 10000

\* lines 324-334
stopByMode(md, cum, off, peak, smp) ==
  \/ stopBy201(md, cum, off)
  \/ md = "402" /\ cum >= 402 * 10000 - off
  \/ stopByPeak(md, peak)
  \/ stopBy60100(md, smp)

\* a handler that calls finishRun once for the 402 m rule and once more for
\* the mode, and a finishRun that writes its record on every call
finishWritesEach(by402, byMode) ==
  (IF by402 THEN 1 ELSE 0) + (IF byMode THEN 1 ELSE 0)

\* lines 150-151 and 316-333: the records one fix writes. The handler
\* returns after its first call of finishRun, and finishRun returns before
\* line 174 when the run is finished already.
finishWrites(by402, byMode) == IF by402 \/ byMode THEN 1 ELSE 0

\* a record built before the capture loop of lines 308-313 has run
runRecordStale(md, peak, mks, cum, chk) ==
  [mode |-> md, peak |-> peak, marks |-> marks, distance |-> cum,
   rollout |-> chk]

\* lines 157-174: the record finishRun writes
runRecord(md, peak, mks, cum, chk) ==
  [mode |-> md, peak |-> peak, marks |-> mks, distance |-> cum,
   rollout |-> chk]

\* a stop() that records the run it interrupts
recordAfterStopWritten ==
  IF running
    THEN runRecord("402", peakSpeed, marks, cumulative, FALSE)
    ELSE lastRun

\* lines 360-364: stop() does not call finishRun and writes no record
recordAfterStop == lastRun

\* a fix as the position feed delivers it (p.coords)
coordsOf(pos, v) ==
  [latitude |-> pos.latitude, longitude |-> pos.longitude, speed |-> v]
posOf(c) == [latitude |-> c.latitude, longitude |-> c.longitude]

(* ------------------------------------------------------------------ Init *)
\* smoothed, accuracy, mode and checked are the locals of the last call of
\* onPos: the smoothed speed of line 227, c.accuracy where line 252 read it,
\* modeSelect.value and rolloutChk.checked where lines 299-325 and finishRun
\* read them. They hold no value when the handler did not get that far, and
\* after arm(), stop() and reset().
noLocals == smoothed = NONE /\ accuracy = NONE /\ mode = "" /\ checked = FALSE

\* the state after lines 51-66 and the init calls of lines 444-447
Init ==
  /\ watchId = NONE
  /\ armed = FALSE
  /\ running = FALSE
  /\ finished = FALSE
  /\ startPos = NULL
  /\ lastPos = NULL
  /\ lastHeading = NONE
  /\ cumulative = 0
  /\ startTime = NONE
  /\ peakSpeed = 0
  /\ samples = << >>
  /\ marks = noMarks
  /\ kalman = kalmanReset(0)
  /\ lastRun = NULL
  /\ written = 0
  /\ noLocals
  /\ now = 0
  /\ nSamples = 0
  /\ inFlight = 0
  /\ path = "init"
  /\ feed \in Feeds
  /\ spdStart = NONE
  /\ trail = << >>
  /\ ang = NULL

(* --------------------------------------------------------------- actions *)
\* onPos(p), lines 186-337. c is p.coords without the accuracy, gap the time
\* since the last fix was handled. The accuracy, the mode selector and the
\* rollout checkbox are drawn where the handler reads them: the user may have
\* changed the two controls since the last fix, and nothing else reads them
\* in between. path names the return the last handler took.
OnPos(c, gap) ==
  /\ watchId # NONE \/ inFlight > 0
  /\ UNCHANGED << spdStart, trail, ang >>
  /\ nSamples' = nSamples + 1
  /\ feed' = feed
  /\ IF frozen
       THEN /\ path' = "frozen"
            /\ smoothed' = NONE
            /\ accuracy' = NONE
            /\ mode' = ""
            /\ checked' = FALSE
            /\ UNCHANGED << watchId, armed, running, finished, startPos,
                            lastPos, lastHeading, cumulative, startTime,
                            peakSpeed, samples, marks, kalman, lastRun, written,
                            now >>
       ELSE
         LET t == now + gap
         IN
         /\ now' = t
         /\ smoothed' = smoothedOf(c, t)
         /\ kalman' = kalmanAfter(c, t)
         /\ lastPos' = posOf(c)
         /\ IF ~ armed
              THEN \* lines 245-248
                /\ path' = "idle"
                /\ samples' = pushed(c, t)
                /\ peakSpeed' = peakAfter(c, t)
                /\ lastHeading' = headingAfterRebuild(c)
                /\ accuracy' = NONE
                /\ mode' = ""
                /\ checked' = FALSE
                /\ UNCHANGED << watchId, armed, running, finished, startPos,
                                cumulative, startTime, marks, lastRun, written >>
              ELSE IF startPos = NULL
              THEN \* lines 251-262
                /\ samples' = pushed(c, t)
                /\ peakSpeed' = peakAfter(c, t)
                /\ \E acc \in Accuracies :
                     /\ accuracy' = acc
                     /\ IF hasLock(acc)
                          THEN /\ path' = "lock"
                               /\ startPos' = posOf(c)
                               /\ lastHeading' = NONE
                          ELSE /\ path' = "nolock"
                               /\ startPos' = startPos
                               /\ lastHeading' = headingAfterRebuild(c)
                /\ mode' = ""
                /\ checked' = FALSE
                /\ UNCHANGED << watchId, armed, running, finished,
                                cumulative, startTime, marks, lastRun, written >>
              ELSE IF ~ running
              THEN \* lines 264-292
                /\ lastHeading' = headingAfterFilter(c)
                /\ IF ready(pushed(c, t), t)
                     THEN /\ path' = "start"
                          /\ running' = TRUE
                          /\ startTime' = t
                          /\ cumulative' = startDistance(c)
                          /\ peakSpeed' = startPeak(c, t)
                          /\ samples' = << [t |-> t, speed |-> smoothedOf(c, t)] >>
                          /\ marks' = resetMarks
                     ELSE /\ path' = "wait"
                          /\ samples' = pushed(c, t)
                          /\ peakSpeed' = peakAfter(c, t)
                          /\ UNCHANGED << running, startTime, cumulative,
                                          marks >>
                /\ accuracy' = NONE
                /\ mode' = ""
                /\ checked' = FALSE
                /\ UNCHANGED << watchId, armed, finished, startPos,
                                lastRun, written >>
              ELSE \* lines 264-282 and 294-336
                \E md \in Modes, chk \in BOOLEAN :
                LET cum == cumulative + deltaOf(c)
                    elapsed == t - startTime
                    off == rolloutOffsetOf(chk)
                    mks == [m \in MILESTONES |->
                              capture(marks[m], m, cum, off, elapsed,
                                      smoothedOf(c, t))]
                    peak == peakAfter(c, t)
                IN
                /\ lastHeading' = headingAfterFilter(c)
                /\ cumulative' = cum
                /\ marks' = mks
                /\ peakSpeed' = peak
                /\ mode' = md
                /\ checked' = chk
                /\ IF stopBy402(mks)
                        \/ stopByMode(md, cum, off, peak, pushed(c, t))
                     THEN \* finishRun, lines 149-183
                          /\ path' = "finish"
                          /\ finished' = TRUE
                          /\ running' = FALSE
                          /\ armed' = FALSE
                          /\ lastRun' = runRecord(md, peak, mks, cum, chk)
                          /\ written' = written
                               + finishWrites(stopBy402(mks),
                                   stopByMode(md, cum, off, peak,
                                              pushed(c, t)))
                          /\ watchId' = NONE
                          /\ samples' = << >>
                     ELSE /\ path' = "run"
                          /\ samples' = pushed(c, t)
                          /\ UNCHANGED << finished, running, armed, lastRun, written,
                                          watchId >>
                /\ accuracy' = NONE
                /\ UNCHANGED << startPos, startTime >>
  /\ inFlight' = IF watchId = NONE THEN inFlight - 1
                 ELSE IF watchId' = NONE THEN MaxInFlight ELSE 0

\* arm(), lines 340-358 (geolocation is available)
Arm ==
  /\ IF armed
       THEN \* lines 342-349: disarm, resetUI
            /\ path' = "disarm"
            /\ armed' = FALSE
            /\ watchId' = disarmWatch
            /\ kalman' = resetUI
       ELSE \* lines 351-357
            /\ path' = "arm"
            /\ armed' = TRUE
            /\ watchId' = 1
            /\ kalman' = kalman
  /\ running' = FALSE
  /\ finished' = FALSE
  /\ startPos' = NULL
  /\ lastPos' = NULL
  /\ lastHeading' = NONE
  /\ cumulative' = 0
  /\ startTime' = NONE
  /\ peakSpeed' = 0
  /\ samples' = << >>
  /\ marks' = resetMarks
  /\ inFlight' = IF watchId # NONE /\ watchId' = NONE THEN MaxInFlight
                 ELSE IF watchId' # NONE THEN 0 ELSE inFlight
  /\ smoothed' = NONE
  /\ accuracy' = NONE
  /\ mode' = ""
  /\ checked' = FALSE
  /\ UNCHANGED << lastRun, written, now, nSamples, feed, spdStart, trail,
                  ang >>

\* stop(), lines 360-364
Stop ==
  /\ path' = "stop"
  /\ watchId' = NONE
  /\ running' = runningAfterStop
  /\ armed' = FALSE
  /\ finished' = finishedAfterStop
  /\ cumulative' = distanceAfterStop
  /\ lastRun' = recordAfterStop
  /\ inFlight' = IF watchId # NONE THEN MaxInFlight ELSE inFlight
  /\ smoothed' = NONE
  /\ accuracy' = NONE
  /\ mode' = ""
  /\ checked' = FALSE
  /\ UNCHANGED << startPos, lastPos, lastHeading, startTime, peakSpeed,
                  samples, marks, kalman, written, now, nSamples,
                  feed, spdStart, trail, ang >>

\* resetAll(), lines 366-373
ResetAll ==
  /\ path' = "reset"
  /\ watchId' = NONE
  /\ armed' = FALSE
  /\ running' = FALSE
  /\ finished' = FALSE
  /\ startPos' = NULL
  /\ lastPos' = NULL
  /\ lastHeading' = NONE
  /\ cumulative' = 0
  /\ startTime' = NONE
  /\ peakSpeed' = 0
  /\ samples' = << >>
  /\ marks' = resetMarks
  /\ kalman' = resetUI
  /\ inFlight' = IF watchId # NONE THEN MaxInFlight ELSE inFlight
  /\ smoothed' = NONE
  /\ accuracy' = NONE
  /\ mode' = ""
  /\ checked' = FALSE
  /\ UNCHANGED << lastRun, written, now, nSamples, feed, spdStart, trail,
                  ang >>

Feed ==
  /\ nSamples < MaxSamples
  /\ \E pos \in Positions(feed), v \in Speeds(feed), gap \in Gaps(feed) :
       OnPos(coordsOf(pos, v), gap)

Next == Feed \/ Arm \/ Stop \/ ResetAll

Spec == Init /\ [][Next]_vars

(* ------------------------------------------------- a run that keeps moving *)
\* The machine under a feed that never stops and a user who arms once and
\* then leaves it alone: fixes at three points of the strip, each at least
\* MinStep of counted distance beyond the last while the run lasts. Before the run and
\* after it the fixes are bounded as in Spec; during the run they are not,
\* the run is only given up at MaxDistance.
LiveInit == Init /\ feed = "strip"

LivePositions == {P0, P1, P3}

LiveArm == ~ armed /\ ~ finished /\ nSamples = 0 /\ Arm

LiveFeed ==
  /\ IF running THEN cumulative < MaxDistance ELSE nSamples < MaxSamples
  /\ \E pos \in LivePositions, v \in Speeds("strip"),
        gap \in Gaps("strip") :
       OnPos(coordsOf(pos, v), gap)
  /\ running => finished' \/ cumulative' >= cumulative + MinStep

LiveNext == LiveArm \/ LiveFeed

\* watchPosition keeps calling onPos while the watch is on
SpecLive == LiveInit /\ [][LiveNext]_vars /\ WF_vars(LiveFeed)

(* --------------------------------- app.js, Throttle Start FIX v3 (9-245) *)
\* The first tracker of app.js keeps its state in variables of the same
\* names (lines 29-37) and in window._spdStart. Its flags, positions,
\* distance, start time, peak speed and samples are the variables above;
\* spdStart is window._spdStart, ms, NONE for null. It has no finished
\* flag, heading, milestones, filter or run record: those stay as Init
\* leaves them. watchId is the watch that is on: the variable of app.js
\* keeps the id after clearWatch, and only ever hands it to clearWatch
\* again. startPos and lastPos are kept without the speed that cur carries,
\* which nothing reads. trail is the history of the fixes handled since the
\* last arm(), time and ghost-filtered speed of each.
startThreshold == 100
minMove == 10000
stableTime == 300
APP_GHOST_KMH == 150
APP_LOCK_ACCURACY_M == 50

\* what the receiver of this tracker delivers: a vehicle at the start line
\* P0 or 19.79 m ahead at P1, reporting no speed, 0.3 m/s (1.08 km/h) or
\* 30 m/s, 100 or 300 ms after the last fix
AppPositions == {P0, P1}
AppSpeeds == {NONE, 30, 3000}
AppGaps == {100, 300}

\* lines 64-67: speed in km/h, below 1.5 km/h taken for 0
appSpeed(c) ==
  LET s == IF c.speed = NONE THEN 0 ELSE toKmh(c.speed)
  IN  IF s < APP_GHOST_KMH THEN 0 ELSE s

\* line 77
appPeak(c) == IF appSpeed(c) > peakSpeed THEN appSpeed(c) ELSE peakSpeed

\* lines 114-118: the start of the streak of fast fixes
spdStartAfter(c, t) ==
  IF appSpeed(c) >= startThreshold
    THEN IF spdStart = NONE THEN t ELSE spdStart
    ELSE NONE

\* lines 120-122
stableOf(c, t) ==
  IF spdStartAfter(c, t) # NONE THEN t - spdStartAfter(c, t) ELSE 0

\* line 124
movedOf(c) == hav(startPos, posOf(c))

\* a start on a stable speed alone
appStartsUnmoved(c, t) == stableOf(c, t) >= stableTime

\* line 127
appStarts(c, t) == stableOf(c, t) >= stableTime /\ movedOf(c) >= minMove

\* lines 158-168; the buffer holds the start sample only (line 132)
appFinishes(md, cum, peak, smp) ==
  \/ md = "201" /\ cum >= 201 * 10000
  \/ md = "402" /\ cum >= 402 * 10000
  \/ md = "0-100" /\ peak >= 10000
  \/ md = "0-140" /\ peak >= 14000
  \/ /\ md = "60-100"
     /\ LET lastSpeeds == { smp[i].speed :
                            i \in { j \in 1..Len(smp) : j > Len(smp) - 8 } }
        IN  /\ \E x \in lastSpeeds : x >= 6000
            /\ \E x \in lastSpeeds : x >= 10000

AppInit == Init /\ feed = "launch"

\* what this tracker has not: left as Init leaves it
AppRest ==
  UNCHANGED << finished, lastHeading, marks, kalman, lastRun, written,
               checked, smoothed, feed, ang >>

\* onPos, lines 58-169
AppOnPos(c, gap) ==
  LET t == now + gap
  IN
  /\ watchId # NONE \/ inFlight > 0
  /\ inFlight' = IF watchId = NONE THEN inFlight - 1 ELSE 0
  /\ nSamples' = nSamples + 1
  /\ now' = t
  /\ trail' = Append(trail, [t |-> t, speed |-> appSpeed(c)])
  /\ AppRest
  /\ UNCHANGED watchId
  /\ IF ~ armed
       THEN \* line 81
         /\ path' = "idle"
         /\ peakSpeed' = appPeak(c)
         /\ accuracy' = NONE
         /\ mode' = ""
         /\ UNCHANGED << armed, running, startPos, lastPos, cumulative,
                         startTime, samples, spdStart >>
       ELSE IF startPos = NULL
       THEN \* lines 84-93
         /\ peakSpeed' = appPeak(c)
         /\ mode' = ""
         /\ \E acc \in Accuracies :
              /\ accuracy' = acc
              /\ IF acc <= APP_LOCK_ACCURACY_M
                   THEN /\ path' = "lock"
                        /\ startPos' = posOf(c)
                        /\ lastPos' = posOf(c)
                   ELSE /\ path' = "nolock"
                        /\ UNCHANGED << startPos, lastPos >>
         /\ UNCHANGED << armed, running, cumulative, startTime, samples,
                         spdStart >>
       ELSE IF ~ running
       THEN \* lines 96-137
         /\ lastPos' = posOf(c)
         /\ spdStart' = spdStartAfter(c, t)
         /\ accuracy' = NONE
         /\ mode' = ""
         /\ IF appStarts(c, t)
              THEN /\ path' = "start"
                   /\ running' = TRUE
                   /\ startTime' = t
                   /\ cumulative' = 0
                   /\ peakSpeed' = appSpeed(c)
                   /\ samples' = << [t |-> t, speed |-> appSpeed(c)] >>
              ELSE /\ path' = "wait"
                   /\ peakSpeed' = appPeak(c)
                   /\ UNCHANGED << running, startTime, cumulative, samples >>
         /\ UNCHANGED << armed, startPos >>
       ELSE \* lines 96-97 and 146-168
         \E md \in Modes :
           /\ lastPos' = posOf(c)
           /\ cumulative' = cumulative + hav(lastPos, posOf(c))
           /\ peakSpeed' = appPeak(c)
           /\ accuracy' = NONE
           /\ mode' = md
           /\ IF appFinishes(md, cumulative + hav(lastPos, posOf(c)),
                             appPeak(c), samples)
                THEN \* finishRun, lines 171-175
                     /\ path' = "finish"
                     /\ running' = FALSE
                     /\ armed' = FALSE
                ELSE /\ path' = "run"
                     /\ UNCHANGED << running, armed >>
           /\ UNCHANGED << startPos, startTime, samples, spdStart >>

\* arm(), lines 177-214
AppArm ==
  /\ IF armed
       THEN \* lines 178-188
            /\ path' = "disarm"
            /\ armed' = FALSE
            /\ watchId' = NONE
            /\ inFlight' = IF watchId # NONE THEN MaxInFlight ELSE inFlight
            /\ UNCHANGED << spdStart, trail >>
       ELSE \* lines 196-213
            /\ path' = "arm"
            /\ armed' = TRUE
            /\ watchId' = 1
            /\ inFlight' = 0
            /\ spdStart' = NONE
            /\ trail' = << >>
  /\ running' = FALSE
  /\ startPos' = NULL
  /\ lastPos' = NULL
  /\ cumulative' = 0
  /\ peakSpeed' = 0
  /\ samples' = << >>
  /\ accuracy' = NONE
  /\ mode' = ""
  /\ AppRest
  /\ UNCHANGED << startTime, now, nSamples >>

\* stop(), lines 216-221
AppStop ==
  /\ path' = "stop"
  /\ watchId' = NONE
  /\ inFlight' = IF watchId # NONE THEN MaxInFlight ELSE inFlight
  /\ running' = FALSE
  /\ armed' = FALSE
  /\ accuracy' = NONE
  /\ mode' = ""
  /\ AppRest
  /\ UNCHANGED << startPos, lastPos, cumulative, startTime, peakSpeed,
                  samples, now, nSamples, spdStart, trail >>

\* reset(), lines 223-238
AppReset ==
  /\ path' = "reset"
  /\ watchId' = NONE
  /\ inFlight' = IF watchId # NONE THEN MaxInFlight ELSE inFlight
  /\ armed' = FALSE
  /\ running' = FALSE
  /\ startPos' = NULL
  /\ lastPos' = NULL
  /\ cumulative' = 0
  /\ peakSpeed' = 0
  /\ samples' = << >>
  /\ accuracy' = NONE
  /\ mode' = ""
  /\ AppRest
  /\ UNCHANGED << startTime, now, nSamples, spdStart, trail >>

AppFeed ==
  /\ nSamples < MaxAppSamples
  /\ \E pos \in AppPositions, v \in AppSpeeds, gap \in AppGaps :
       AppOnPos(coordsOf(pos, v), gap)

AppNext == AppFeed \/ AppArm \/ AppStop \/ AppReset

SpecApp == AppInit /\ [][AppNext]_vars

(* ------------------------------------------------------ a stalling feed *)
\* The cadence of the feed is the receiver's: a fix may come 200 ms after
\* the last one, or after a stall of 3200 ms, longer than the buffer keeps
\* a sample (line 231). The vehicle is the one of "launch".
StallGaps == {200, 3200}

StallInit == Init /\ feed = "launch"

StallFeed ==
  /\ nSamples < MaxSamples
  /\ \E pos \in Positions(feed), v \in Speeds(feed), gap \in StallGaps :
       OnPos(coordsOf(pos, v), gap)

StallNext == StallFeed \/ Arm \/ Stop \/ ResetAll

SpecStall == StallInit /\ [][StallNext]_vars

(* ------------------------------------ the angular difference, 205 and 270 *)
\* ang holds a pair of bearings in [0, 360), 1/1000 degree, as headingDeg
\* returns them (line 106), and the diff of lines 205 and 270 taken both
\* ways; NULL until a pair has been compared. The bearings are MaxBearings
\* evenly spaced ones and those next to 0, 180 and 360 degrees.
Bearings ==
  { (k * 360000) \div MaxBearings : k \in 0..(MaxBearings - 1) }
    \cup { 1, 179999, 180001, 359999 }

machine == << watchId, armed, running, finished, startPos, lastPos,
              lastHeading, cumulative, startTime, peakSpeed, samples, marks,
              kalman, lastRun, written, mode, checked, now, smoothed,
              accuracy, nSamples, inFlight, path, feed, spdStart, trail >>

Compare ==
  /\ \E a \in Bearings, b \in Bearings :
       ang' = [a |-> a, b |-> b, ab |-> angDiff(a, b), ba |-> angDiff(b, a)]
  /\ UNCHANGED machine

AngInit == Init /\ feed = "strip"

SpecAngle == AngInit /\ [][Compare]_vars

(* ---------------------------------------------------------------- claims *)
\* a step that hands a fix to onPos
Sampled == nSamples' # nSamples
\* the distance at which milestone m counts as reached, given the checkbox
Threshold(m, chk) == m * 10000 - (IF chk THEN ROLL_OUT_M ELSE 0)

\* C1: once the run is finished, a fix handed to onPos leaves the cumulative
\* distance, the start timestamp, the peak speed and every milestone as they
\* were.
C1_Freeze ==
  [][finished /\ Sampled
       => UNCHANGED << cumulative, startTime, peakSpeed, marks >>]_vars
\* a fix was dropped by a finished run
C1_Witness == finished /\ path = "frozen" /\ marks[20] # NULL

\* C2: a captured milestone is changed by no fix; it changes only by being
\* cleared, by arm(), reset() or a new start.
C2_MilestoneImmutable ==
  [][\A m \in MILESTONES :
       marks[m] # NULL /\ marks'[m] # marks[m]
         => /\ ~ (Sampled /\ running)
            /\ marks'[m] = NULL
            /\ path' \in {"arm", "disarm", "reset", "start"}]_vars
\* a milestone captured on an earlier fix of the run still stands after a
\* later fix of the same run, which went beyond it
C2_Witness ==
  /\ running /\ path = "run"
  /\ marks[20] # NULL
  /\ marks[20].time < now - startTime
  /\ cumulative > 2 * Threshold(20, FALSE)

\* C3: a fix processed in Running captures every milestone that is not yet
\* captured and whose threshold (M, less 0.3048 m with the rollout on) the
\* cumulative distance has reached, with the elapsed time and the smoothed
\* speed of that fix, and captures no other.
C3_CaptureRule ==
  [][running /\ Sampled
       => \A m \in MILESTONES :
            marks[m] = NULL
              => marks'[m] =
                   IF cumulative' >= Threshold(m, checked')
                     THEN [time |-> now' - startTime, speed |-> smoothed']
                     ELSE NULL]_vars
\* milestone 20 captured at 19.79 m because the rollout is on, 100 not yet
C3_Witness ==
  /\ running /\ path = "run" /\ checked
  /\ cumulative < Threshold(20, FALSE)
  /\ marks[20] = [time |-> now - startTime, speed |-> smoothed]
  /\ marks[100] = NULL

\* C4: a fix that is not processed in Running (Idle, Armed with or without
\* lock, Finished, after stop() or reset()) leaves the cumulative distance
\* and the milestones as they were.
C4_OnlyRunningAccumulates ==
  [][Sampled /\ ~ running => UNCHANGED << cumulative, marks >>]_vars
\* a fix handled after stop() with a distance and a milestone standing
C4_Witness ==
  /\ path = "idle" /\ cumulative > 0 /\ marks[20] # NULL /\ lastRun = NULL

\* C5: while Running, a fix whose segment bears more than 25 degrees off the
\* bearing recorded before it adds nothing to the cumulative distance.
C5_HeadingGate ==
  [][/\ running /\ Sampled
     /\ lastPos # NULL /\ lastHeading # NONE
     /\ angDiff(lastHeading, headingDeg(lastPos, lastPos')) > HEADING_MAX_DEG
     => cumulative' = cumulative]_vars

\* C6: with the start position fixed, a fix processed in Armed starts the
\* run exactly when every buffered sample at most 450 ms old, the one of
\* this fix included, has a smoothed speed of at least 3 km/h; otherwise the
\* machine stays Armed.
C6_StartCondition ==
  [][armed /\ ~ running /\ startPos # NULL /\ Sampled
       => /\ armed'
          /\ running' <=>
               /\ smoothed' >= START_THRESHOLD_KMH
               /\ \A i \in 1..Len(samples) :
                    now' - samples[i].t <= START_WINDOW_MS
                      => samples[i].speed >= START_THRESHOLD_KMH]_vars
\* the fix is fast, an older sample in the window is not: no start
C6_Witness ==
  /\ path = "wait" /\ armed /\ ~ running
  /\ smoothed >= START_THRESHOLD_KMH

\* C7: a run starts only on a fix that completes a 450 ms window of fast
\* samples: some buffered sample is at least 450 ms older than the fix, and
\* it and every sample since has a smoothed speed of at least 3 km/h.
C7_StartNotEarly ==
  [][~ running /\ running'
       => \E i \in 1..Len(samples) :
            /\ now' - samples[i].t >= START_WINDOW_MS
            /\ \A j \in i..Len(samples) :
                 samples[j].speed >= START_THRESHOLD_KMH]_vars

\* C8: right after the fix that starts the run, the start timestamp is the
\* time of that fix, the cumulative distance is 0, the peak speed is the
\* smoothed speed of that fix, the sample buffer holds that fix alone and
\* no milestone is captured.
C8_StartEffects ==
  [][~ running /\ running'
       => /\ startTime' = now'
          /\ cumulative' = 0
          /\ peakSpeed' = smoothed'
          /\ samples' = << [t |-> now', speed |-> smoothed'] >>
          /\ \A m \in MILESTONES : marks'[m] = NULL]_vars
\* a run started on a fix that measured more than its smoothed speed
C8_Witness ==
  /\ path = "start" /\ running
  /\ peakSpeed = smoothed /\ smoothed < toKmh(3000)
  /\ startTime = now

\* C9: arm() leaves no start position, and an armed machine without a start
\* position that gets a fix with an accuracy above 50 m stays Armed, without
\* a start position and not Running.
C9_NoStartWithoutLock ==
  [][/\ path' = "arm" => armed' /\ startPos' = NULL /\ ~ running'
     /\ armed /\ startPos = NULL /\ Sampled /\ accuracy' > LOCK_ACCURACY_M
          => armed' /\ startPos' = NULL /\ ~ running']_vars
\* two fast fixes with a bad accuracy, and still waiting for the lock
C9_Witness ==
  /\ armed /\ ~ running /\ startPos = NULL /\ path = "nolock"
  /\ Len(samples) >= 2
  /\ \A i \in 1..Len(samples) : samples[i].speed >= START_THRESHOLD_KMH

\* C10: whatever the mode, a fix processed in Running that brings the
\* cumulative distance to 402 m (less 0.3048 m with the rollout on) finishes
\* the run and captures milestone 402 with the elapsed time of that fix.
C10_Finish402 ==
  [][running /\ Sampled /\ cumulative' >= Threshold(402, checked')
       => /\ finished' /\ ~ running' /\ ~ armed'
          /\ marks[402] = NULL
          /\ marks'[402] # NULL
          /\ marks'[402].time = now' - startTime]_vars
\* a run in mode 0-140 finished by the 402 m rule, the peak below 140 km/h
C10_Witness ==
  /\ finished /\ path = "finish"
  /\ mode = "0-140" /\ peakSpeed < 14000
  /\ marks[402] # NULL /\ marks[402].time = now - startTime

\* C11: in mode 201 a fix processed in Running finishes the run exactly when
\* it brings the cumulative distance to 201 m (less 0.3048 m with the
\* rollout on), and the record of that run has the milestones 20, 100 and
\* 201 captured.
C11_Mode201 ==
  [][running /\ Sampled /\ mode' = "201"
       => /\ finished' <=> cumulative' >= Threshold(201, checked')
          /\ finished' => /\ ~ running'
                          /\ \A m \in {20, 100, 201} :
                               lastRun'.marks[m] # NULL]_vars
\* a run finished in mode 201 short of 201 m (rollout on) and of 402 m
C11_Witness ==
  /\ finished /\ path = "finish" /\ mode = "201" /\ checked
  /\ cumulative < 201 * 10000
  /\ lastRun.marks[201] # NULL /\ lastRun.marks[402] = NULL

\* the peak speed at which a speed mode stops the run, 1/100 km/h
Target(md) == IF md = "0-100" THEN 10000 ELSE 14000

\* C12: in mode 0-100 (0-140) a fix processed in Running finishes the run
\* exactly when the peak speed after it is at least 100 (140) km/h, whatever
\* the distance, unless the run finishes by the 402 m rule on that fix.
C12_SpeedModes ==
  [][running /\ Sampled /\ mode' \in {"0-100", "0-140"}
       => /\ finished' <=> peakSpeed' >= Target(mode') \/ marks'[402] # NULL
          /\ finished' => ~ running' /\ ~ armed']_vars
\* a run in mode 0-140 finished at 288 km/h before it had moved
C12_Witness ==
  /\ finished /\ path = "finish" /\ mode = "0-140"
  /\ peakSpeed >= Target("0-140")
  /\ cumulative = 0 /\ marks[20] = NULL

\* the sample buffer as it stands when a fix reaches the stop conditions:
\* the samples at most 3 s old and the sample of the fix itself
BufferNow ==
  SelectSeq(samples, LAMBDA s : now' - s.t <= maxKeepMs)
    \o << [t |-> now', speed |-> smoothed'] >>
\* the speeds of the last n samples of a buffer
LastOf(buf, n) == { buf[i].speed : i \in { j \in 1..Len(buf) : j > Len(buf) - n } }

\* C13 as stated: in mode 60-100 a fix processed in Running finishes the run
\* exactly when the sample buffer holds a smoothed speed of at least 60 km/h
\* and one of at least 100 km/h.
C13_Mode60100AsStated ==
  [][running /\ Sampled /\ mode' = "60-100"
       => (finished' <=>
             /\ \E s \in LastOf(BufferNow, Len(BufferNow)) : s >= 6000
             /\ \E s \in LastOf(BufferNow, Len(BufferNow)) : s >= 10000)]_vars

\* C13, amended: in mode 60-100 a fix processed in Running finishes the run
\* exactly when the last ten samples of the buffer hold a smoothed speed of
\* at least 60 km/h and one of at least 100 km/h, in any order, or the fix
\* brings the run to 402 m (the rule of every mode).
C13_Mode60100 ==
  [][running /\ Sampled /\ mode' = "60-100"
       => /\ finished' <=>
               \/ marks'[402] # NULL
               \/ /\ \E s \in LastOf(BufferNow, 10) : s >= 6000
                  /\ \E s \in LastOf(BufferNow, 10) : s >= 10000
          /\ finished' => ~ running' /\ ~ armed']_vars
\* a run in mode 60-100 finished by speed, on a fix smoothed to 100 km/h
\* or more, with 402 m still far
C13_Witness ==
  /\ finished /\ path = "finish" /\ mode = "60-100"
  /\ marks[402] = NULL
  /\ smoothed >= 10000

\* C14: after a run has finished (milestone 402 is captured on the
\* finishing fix only, and stands until arm() or reset() clears it), no fix
\* changes the peak speed, the filter state, the sample buffer, the last
\* position, the distance or the milestones: not after a stop() either.
C14_FinishTerminal ==
  [][marks[402] # NULL /\ Sampled
       => UNCHANGED << peakSpeed, kalman, samples, lastPos, cumulative,
                       marks >>]_vars

\* C15: window._lastRun is written only by a fix that finishes a run, once
\* by that fix, whichever and however many of the stop conditions hold, and
\* every fix that finishes a run writes it. The run is over then (neither
\* running nor armed); a run starts only from Armed, and only arm() arms:
\* so a run writes at most one record before the next arm().
C15_OneRecord ==
  [][/\ written' # written
          => /\ running /\ Sampled /\ ~ finished
             /\ written' = written + 1
             /\ finished' /\ ~ running' /\ ~ armed'
     /\ ~ finished /\ finished' => written' = written + 1
     /\ ~ running /\ running' => armed /\ Sampled
     /\ ~ armed /\ armed' => path' = "arm" /\ ~ Sampled]_vars
\* one record, of a run in mode 402 that met the 402 m rule and the rule of
\* its mode on the same fix; a fix and a stop() later there is still one
C15_Witness ==
  /\ written = 1 /\ lastRun # NULL /\ lastRun.mode = "402"
  /\ marks[402] # NULL
  /\ path = "stop" /\ nSamples = 4

\* C16: the record written by the fix that finishes a run holds the mode,
\* the peak speed, the distance, the rollout flag and the milestones as they
\* stand after that fix, and no other step (arm(), stop(), reset(), a later
\* fix) changes the record.
C16_RecordSnapshot ==
  [][/\ ~ finished /\ finished'
          => lastRun' = [mode |-> mode', peak |-> peakSpeed',
                         marks |-> marks', distance |-> cumulative',
                         rollout |-> checked']
     /\ lastRun' # lastRun => ~ finished /\ finished']_vars
\* the record of a finished run, with milestone 402 captured on the
\* finishing fix, after arm() has cleared the milestones and the distance
C16_Witness ==
  /\ path = "arm" /\ armed /\ marks[402] = NULL /\ cumulative = 0
  /\ lastRun # NULL /\ lastRun.marks[402] # NULL
  /\ lastRun.distance >= Threshold(402, lastRun.rollout)

\* what arm(), the disarm of arm() and reset() leave of a run
Cleared ==
  /\ cumulative = 0 /\ startTime = NONE /\ peakSpeed = 0
  /\ samples = << >>
  /\ startPos = NULL /\ lastPos = NULL /\ lastHeading = NONE
  /\ ~ running /\ ~ finished
  /\ \A m \in MILESTONES : marks[m] = NULL

\* C17: arm() on a machine that is not armed (Idle, stopped or Finished)
\* leaves it Armed with distance 0, no start time, peak speed 0, an empty
\* sample buffer, no start position, last position or last heading, the
\* finished flag cleared and no milestone captured.
C17_ArmClears ==
  [][~ armed /\ armed' => path' = "arm" /\ Cleared' /\ watchId' # NONE]_vars
\* armed again after a run that finished
C17_Witness ==
  /\ path = "arm" /\ armed /\ lastRun # NULL /\ now > 0 /\ Cleared

\* C18: every arm() that arms the machine leaves the filter in its neutral
\* state (estimate 0, error covariance 1).
C18_ArmResetsFilter ==
  [][~ armed /\ armed' => kalman' = kalmanReset(0)]_vars

\* a step of arm(): no other step ends on one of its two paths
ArmCalled == path' \in {"arm", "disarm"} /\ path' # path

\* C19: arm() on an armed machine (Armed or Running) does not arm again: it
\* leaves the machine Idle, everything of the run cleared and the position
\* feed released; arm() on a machine that is not armed never disarms.
C19_ArmToggles ==
  [][ArmCalled
       => /\ armed => /\ path' = "disarm"
                      /\ ~ armed' /\ Cleared'
                      /\ watchId' = NONE
                      /\ kalman' = kalmanReset(0)
          /\ ~ armed => path' = "arm" /\ armed']_vars
\* disarmed out of a run: fixes were handled, one is still queued
C19_Witness ==
  /\ path = "disarm" /\ ~ armed /\ Cleared /\ watchId = NONE
  /\ nSamples >= 3 /\ inFlight > 0 /\ now >= 600

\* C20: stop() and reset() leave the machine Idle and the feed released
\* from any state, and a second stop() (reset()) right after the first
\* changes nothing; reset() also leaves everything of the run cleared.
C20_StopResetIdempotent ==
  [][/\ path' \in {"stop", "reset"}
          => ~ armed' /\ ~ running' /\ ~ finished' /\ watchId' = NONE
     /\ path' = "reset" => Cleared' /\ kalman' = kalmanReset(0)
     /\ path = "stop" /\ path' = "stop" => UNCHANGED vars
     /\ path = "reset" /\ path' = "reset" => UNCHANGED vars]_vars
\* stopped out of a finished run, whose distance and milestones stand
C20_Witness ==
  /\ path = "stop" /\ ~ armed /\ ~ running /\ ~ finished
  /\ lastRun # NULL /\ marks[402] # NULL /\ cumulative > 0

\* neither armed, running nor finished, and the position feed released
Idle == ~ armed /\ ~ running /\ ~ finished /\ watchId = NONE

\* C21: stop() leaves the machine Idle with the feed released, and leaves
\* the distance, the start time, the peak speed, the milestones, the two
\* positions, the heading and the filter state as they were.
C21_StopKeeps ==
  [][path' = "stop"
       => /\ Idle'
          /\ UNCHANGED << cumulative, startTime, peakSpeed, marks, startPos,
                          lastPos, lastHeading, kalman >>]_vars
\* stopped in the middle of a run: its values stand
C21_Witness ==
  /\ path = "stop" /\ Idle /\ lastRun = NULL
  /\ cumulative > 0 /\ startTime # NONE /\ marks[20] # NULL
  /\ startPos # NULL /\ lastHeading # NONE

\* C22: reset() leaves the machine Idle with distance 0, no start time,
\* peak speed 0, an empty sample buffer, no position, no heading, no
\* milestone and the filter at estimate 0, covariance 1.
C22_ResetClears ==
  [][path' = "reset"
       => /\ Idle' /\ Cleared'
          /\ kalman' = [x |-> 0, p |-> KALMAN_P0]]_vars
\* reset after a finished run whose fixes had moved the filter
C22_Witness ==
  /\ path = "reset" /\ Idle /\ Cleared /\ kalman.x = 0
  /\ lastRun # NULL /\ nSamples >= 3

\* C23: a run that keeps getting fixes, each adding at least MinStep, and no
\* command, finishes, whatever the mode selector holds.
C23_RunFinishes == running ~> finished
\* a run of twenty fixes and more, 19.79 m each, finished by the 402 m rule
\* in a mode whose own target it never met
C23_Witness ==
  /\ finished /\ path = "finish" /\ mode = "0-140"
  /\ nSamples >= 20 /\ marks[402] # NULL /\ lastRun.peak < 14000

\* a fix was handled by the onPos of app.js
AppSampled == nSamples' = nSamples + 1

\* the fixes since arm() end in a run of fixes of 1 km/h and more that
\* began at least 300 ms before the last of them
StableStreak(tr) ==
  \E i \in 1..Len(tr) :
    /\ tr[i].t <= tr[Len(tr)].t - stableTime
    /\ \A j \in i..Len(tr) : tr[j].speed >= startThreshold

\* C24: in app.js the armed machine starts running only on a fix at which
\* the ghost-filtered speed has been 1 km/h or more on every fix for at
\* least 300 ms and the position is at least 1 m from the start position;
\* on any other fix it stays armed and not running.
C24_AppStart ==
  [][ /\ (~ running /\ running') =>
          /\ AppSampled /\ armed
          /\ StableStreak(trail')
          /\ startPos' # NULL /\ hav(startPos', lastPos') >= minMove
      /\ (AppSampled /\ armed /\ ~ running /\ ~ running') => armed'
    ]_vars

C24_Witness ==
  /\ running /\ path = "start"
  /\ StableStreak(trail)
  /\ hav(startPos, lastPos) >= minMove

\* C25: in app.js the cumulative distance does not increase on a fix whose
\* ghost-filtered speed is 0, and while armed and not running the distance
\* stays 0.
C25_ZeroDrift ==
  [][ /\ (AppSampled /\ trail'[Len(trail')].speed = 0) =>
          cumulative' <= cumulative
      /\ (armed' /\ ~ running') => cumulative' = 0
    ]_vars

\* C26: while armed with no start position, a fix whose accuracy exceeds
\* 50 m leaves the stored last position and last heading unchanged.
C26_LockWaitFrame ==
  [][ (Sampled /\ armed /\ ~ finished /\ startPos = NULL
         /\ accuracy' # NONE /\ accuracy' > LOCK_ACCURACY_M)
        => UNCHANGED << lastPos, lastHeading >>
    ]_vars

\* A fix that onPos handles past line 187 becomes lastPos, moves the clock
\* to its time and leaves the Kalman state of lines 217-224: the step may
\* have handled a fix of reported speed v, and did so if v is the speed of
\* the fix it handled.
HandledAt(v) == kalman' = kalmanAfter(coordsOf(lastPos', v), now')

\* the fix c, handled gap ms after the last one, raises the peak to its
\* measured speed when that exceeds it
PeakFollows(c, gap) ==
  LET m == measuredOf(c, now + gap)
  IN  /\ (m # NONE /\ m > peakSpeed) => peakSpeed' = m
      /\ m # NONE => peakSpeed' >= m

\* C27 as stated: on every fix handled while armed or running the peak
\* follows the measured speed, the fix that starts the run included.
C27_PeakAsStated ==
  [][ (Sampled /\ ~ frozen /\ (armed \/ running)) =>
        \A v \in Speeds(feed) :
          HandledAt(v) => PeakFollows(coordsOf(lastPos', v), now' - now)
    ]_vars

\* C27: on every fix handled while armed or running, other than the fix
\* that starts the run, a measured (ghost-filtered, unsmoothed) speed above
\* the peak becomes the peak, so the peak is at least the measured speed
\* afterwards; the fix that starts the run sets the peak to its smoothed
\* speed.
C27_Peak ==
  [][ (Sampled /\ ~ frozen /\ (armed \/ running)) =>
        \A v \in Speeds(feed) :
          HandledAt(v) =>
            IF path' = "start"
              THEN peakSpeed' = smoothed'
              ELSE PeakFollows(coordsOf(lastPos', v), now' - now)
    ]_vars

C27_Witness ==
  /\ running /\ path = "run"
  /\ peakSpeed = toKmh(3000)
  /\ smoothed < peakSpeed

\* C28: in every reachable state a milestone is captured only if every
\* smaller milestone is captured too, and the captured elapsed times do not
\* decrease with the milestone distance.
C28_MilestoneOrder ==
  \A m1 \in MILESTONES, m2 \in MILESTONES :
    (m1 < m2 /\ marks[m2] # NULL) =>
      /\ marks[m1] # NULL
      /\ marks[m1].time <= marks[m2].time

C28_Witness ==
  /\ marks[402] # NULL
  /\ marks[20].time = marks[201].time
  /\ marks[201].time < marks[402].time

\* the speed that enters the Kalman filter on the fix c handled at t, by
\* the rule of the ghost filter: NONE when there is no measured speed
EntersKalman(c, t) ==
  LET r == rebuiltKmh(c, t)
  IN  IF r = NONE THEN NONE
      ELSE IF r < GHOST_THRESHOLD_KMH THEN 0 ELSE r

ReconstructionDue(c, t) ==
  /\ rawKmh(c) = NONE \/ rawKmh(c) < REBUILD_BELOW_KMH
  /\ lastPos # NULL
  /\ dtMsOf(t) > 0 /\ dtMsOf(t) <= REBUILD_SPEED_MAX_DT
  /\ \/ lastHeading = NONE
     \/ angDiff(lastHeading, headingDeg(lastPos, c)) <= HEADING_MAX_DEG

\* the measured speed of the fix by that guard, before the ghost filter
MeasuredDue(c, t) ==
  IF ReconstructionDue(c, t)
    THEN rebuildSpeedFromDelta(hav(lastPos, c), dtMsOf(t))
    ELSE rawKmh(c)

\* C30: the measured speed of a handled fix is the speed reconstructed from
\* the position delta exactly when the reconstruction is due, and the
\* reported speed (or none) in every other case; it is what the ghost
\* filter hands to the Kalman filter.
C30_Reconstruction ==
  [][ (Sampled /\ ~ frozen) =>
        \A v \in Speeds(feed) :
          HandledAt(v) =>
            LET z == ghost(MeasuredDue(coordsOf(lastPos', v), now'))
            IN  kalman' = IF z = NONE THEN kalman
                                      ELSE kalmanUpdate(kalman, toMs(z))
    ]_vars

\* the smoothed speed of the newest buffered sample, 0 with an empty buffer
LastEmitted == IF Len(samples) > 0 THEN samples[Len(samples)].speed ELSE 0

\* C31: a handled fix with no reported speed and no reconstruction leaves
\* the Kalman estimate and covariance unchanged and has for smoothed speed
\* the smoothed speed emitted last (0 if the buffer is empty).
C31_NoMeasurement ==
  [][ (Sampled /\ ~ frozen) =>
        \A v \in Speeds(feed) :
          (HandledAt(v) /\ v = NONE
             /\ ~ rebuilds(coordsOf(lastPos', v), now'))
            => /\ kalman' = kalman
               /\ smoothed' = LastEmitted
    ]_vars

\* a fix on the prime meridian without speed repeated the smoothed speed of
\* the fix before it
C31_Witness ==
  /\ lastPos = Pz /\ path # "frozen"
  /\ Len(samples) >= 2
  /\ smoothed > 0
  /\ smoothed = samples[Len(samples)].speed
  /\ samples[Len(samples)].speed = samples[Len(samples) - 1].speed

\* the handled fix reaches the heading filter of lines 264-277: the machine
\* is armed with a start position
ReachesFilter == Sampled /\ ~ frozen /\ armed /\ startPos # NULL

\* C32: a segment met with no recorded bearing keeps its full distance (and
\* adds it to the distance of a run), and after every fix that reaches the
\* heading filter the bearing memory is the bearing of that fix's segment,
\* whether the segment was accepted or rejected.
C32_HeadingMemory ==
  [][ ReachesFilter =>
        /\ lastHeading' = headingDeg(lastPos, lastPos')
        /\ lastHeading = NONE =>
             /\ deltaOf(coordsOf(lastPos', NONE)) = hav(lastPos, lastPos')
             /\ running => cumulative' = cumulative + hav(lastPos, lastPos')
    ]_vars

\* the first fix of a run, from P2 to the prime meridian, was rejected
\* against the recorded bearing (north) and is the bearing memory now
C32_Witness ==
  /\ running /\ path = "run"
  /\ lastPos = Pz
  /\ cumulative = 0
  /\ lastHeading = headingDeg(P2, Pz)

Min(x, y) == IF x < y THEN x ELSE y

\* C33: for bearings a and b in [0, 360) the angular difference lies in
\* [0, 180], is the same with a and b swapped, and is the smaller of |a - b|
\* and 360 - |a - b|.
C33_AngDiff ==
  ang # NULL =>
    /\ ang.ab >= 0 /\ ang.ab <= 180000
    /\ ang.ab = ang.ba
    /\ ang.ab = Min(Abs(ang.a - ang.b), 360000 - Abs(ang.a - ang.b))

\* a pair across the wraparound: 359.999 and 15 degrees are 15.001 apart
C33_Witness ==
  /\ ang # NULL
  /\ ang.a = 359999 /\ ang.b = 15000
  /\ ang.ab = 15001

\* C34: after every fix that is handled without finishing the run the
\* buffer is not empty, its newest entry is that fix (its time and smoothed
\* speed), the entries are in non-decreasing time order and none is more
\* than 3000 ms older than the newest.
C34_RollingBuffer ==
  [][ (Sampled /\ ~ frozen /\ path' # "finish") =>
        /\ Len(samples') >= 1
        /\ samples'[Len(samples')] = [t |-> now', speed |-> smoothed']
        /\ \A i \in 1..(Len(samples') - 1) :
             samples'[i].t <= samples'[i + 1].t
        /\ \A i \in 1..Len(samples') :
             samples'[Len(samples')].t - samples'[i].t <= maxKeepMs
    ]_vars

\* three fixes since arm(), the first was pruned after a stall of 3200 ms
C34_Witness ==
  /\ armed /\ path = "wait"
  /\ nSamples = 3 /\ now = 3600
  /\ Len(samples) = 2
  /\ samples[1].t = 3400 /\ samples[2].t = 3600

\* C35: in every reachable state running implies armed, finished implies
\* neither armed nor running, and running implies that a start position
\* and a start timestamp are set.
C35_Lifecycle ==
  /\ running => armed
  /\ finished => ~ armed /\ ~ running
  /\ running => startPos # NULL /\ startTime # NONE

C35_Witness ==
  /\ running /\ armed /\ ~ finished
  /\ startPos # NULL /\ startTime # NONE
  /\ cumulative > 0

\* C36: in every reachable state where the machine is armed and not
\* running the cumulative distance is 0, the start timestamp is absent and
\* no milestone is captured.
C36_ArmedClean ==
  (armed /\ ~ running) =>
    /\ cumulative = 0
    /\ startTime = NONE
    /\ \A m \in MILESTONES : marks[m] = NULL

\* armed again after a finished run, locked by the fourth fix
C36_Witness ==
  /\ armed /\ ~ running
  /\ written >= 1
  /\ path = "lock" /\ startPos # NULL
  /\ cumulative = 0 /\ startTime = NONE
  /\ \A m \in MILESTONES : marks[m] = NULL

\* the lifecycle steps a handled fix can make
FixesStart == startPos = NULL /\ startPos' # NULL
StartsRun == ~ running /\ running'
FinishesRun == ~ finished /\ finished'

\* C37: a handled fix makes at most one of the steps fixing the start
\* position, Armed->Running and Running->Finished; the fix that starts a
\* run leaves the distance 0 and captures no milestone; and every recorded
\* run has taken at least three fixes.
C37_OneStepPerSample ==
  /\ [][ Sampled =>
           /\ ~ (FixesStart /\ StartsRun)
           /\ ~ (StartsRun /\ FinishesRun)
           /\ ~ (FixesStart /\ FinishesRun)
           /\ StartsRun =>
                /\ cumulative' = 0
                /\ \A m \in MILESTONES : marks'[m] = NULL
       ]_vars
  /\ [](nSamples >= 3 * written)

\* a run recorded by the third fix: lock, start, finish
C37_Witness ==
  /\ finished /\ path = "finish"
  /\ nSamples = 3 /\ written = 1

\* C38: in every reachable state the position watch is on exactly when the
\* machine is armed (waiting or running).
C38_WatchFollowsArmed == (watchId # NONE) <=> armed

\* a finished run: the watch was released by finishRun
C38_Witness ==
  /\ finished /\ path = "finish"
  /\ ~ armed /\ watchId = NONE

\* C39: the run record changes only on the fix that takes the machine from
\* Running to Finished; a run ended by stop(), reset() or arm() leaves the
\* record as it was.
C39_OnlyFinishRecords ==
  [][ /\ (lastRun' # lastRun \/ written' # written) =>
          (Sampled /\ running /\ ~ running' /\ ~ finished /\ finished')
      /\ (running /\ ~ running' /\ ~ finished') =>
          (~ Sampled /\ UNCHANGED << lastRun, written >>)
    ]_vars

\* a run interrupted by stop(): no record
C39_Witness ==
  /\ path = "stop" /\ ~ running /\ ~ armed /\ ~ finished
  /\ startTime # NONE /\ peakSpeed > 0
  /\ written = 0 /\ lastRun = NULL

\* C40 as stated: in mode 60-100 a fix processed in Running finishes the run
\* exactly when one of the last ten buffered smoothed speeds is 100 km/h or
\* more.
C40_Only100AsStated ==
  [][ (running /\ Sampled /\ mode' = "60-100") =>
        (finished' <=> \E s \in LastOf(BufferNow, 10) : s >= 10000)
    ]_vars

\* C40: in mode 60-100 a fix processed in Running finishes the run exactly
\* when one of the last ten buffered smoothed speeds is 100 km/h or more,
\* whether or not any buffered speed was below 100 km/h, or when the fix
\* brings the run to 402 m (the rule of every mode).
C40_Only100 ==
  [][ (running /\ Sampled /\ mode' = "60-100") =>
        (finished' <=>
           \/ \E s \in LastOf(BufferNow, 10) : s >= 10000
           \/ marks'[402] # NULL)
    ]_vars

\* a run finished in mode 60-100 by its second fix, far from 402 m: a
\* smoothed speed of 133.94 km/h on the third fix is that of three fixes at
\* 80 m/s, smoothed to 102.16, 115.54 and 133.94 km/h, none below 100
C40_Witness ==
  /\ finished /\ path = "finish" /\ mode = "60-100"
  /\ nSamples = 3
  /\ marks[402] = NULL
  /\ smoothed = 13394
====
